---- MODULE Spec2Model ----
(***************************************************************************)
(* A model of the contact directory of BOT_CLI: the validated field types, *)
(* Record, AddressBook (src/main.py and its earlier variant src/main1.py), *)
(* the pickle-backed AddressBookFileManager and the start of main.         *)
(*                                                                         *)
(* Python strings are sequences of one-character strings, so that len,     *)
(* isdigit, lower and the `in` substring test are computed, not assumed.   *)
(* Python's None is the value None below.                                  *)
(***************************************************************************)
EXTENDS Integers, Sequences, FiniteSets, TLC

VARIABLES
    variant,        \* "main" (src/main.py) or "main1" (src/main1.py)
    address_book,   \* the AddressBook held by the caller: [kind, data]
    file,           \* the file behind AddressBookFileManager: [exists, bytes]
    gen,            \* the generator object returned by AddressBook.iterator
    mutated,        \* history: the book changed since the generator was made
    today,          \* what date.today() returns: <<year, month, day>>
    last            \* the last call: [op, args, err, ret]

vars == <<variant, address_book, file, gen, mutated, today, last>>

None == <<"None">>

-----------------------------------------------------------------------------
(* Bounds of the model.                                                    *)

MaxPhones == 3       \* phones held by the record of SpecRecord
MaxBookPhones == 2   \* phones held by one record of a book
MaxBatch == 3        \* largest batch_size passed to iterator
MaxFetch == 4        \* batches fetched from one generator
FirstYear == 2023    \* date.today() ranges over FirstYear..LastYear
LastYear == 2024

-----------------------------------------------------------------------------
(* Strings.                                                                *)

AsciiDigits == {"0", "1", "2", "3", "4", "5", "6", "7", "8", "9"}

\* str.isdigit() is true of every Unicode digit; the character U+0663
\* (ARABIC-INDIC DIGIT THREE) stands for the non-ASCII ones.
UnicodeDigits == AsciiDigits \cup {"U+0663"}

isdigit(s) == Len(s) > 0 /\ \A i \in 1..Len(s) : s[i] \in UnicodeDigits

LowerChar(c) ==
    CASE c = "A" -> "a"
      [] c = "B" -> "b"
      [] OTHER -> c

lower(s) == [i \in 1..Len(s) |-> LowerChar(s[i])]

\* q in s
Contains(s, q) ==
    \E i \in 0..(Len(s) - Len(q)) : SubSeq(s, i + 1, i + Len(q)) = q

-----------------------------------------------------------------------------
(* Phone.                                                                  *)

PhoneLen == 10

is_valid_phone(phone) == Len(phone) = PhoneLen /\ isdigit(phone)

\* Phone.value's setter in src/main.py: the same test, on every assignment.
PhoneSetterAccepts(phone) == Len(phone) = PhoneLen /\ isdigit(phone)

P1 == <<"1", "2", "3", "4", "5", "6", "7", "8", "9", "0">>
P2 == <<"0", "9", "8", "7", "6", "5", "4", "3", "2", "1">>
PUni == <<"U+0663", "2", "3", "4", "5", "6", "7", "8", "9", "0">>
PShort == <<"1", "2", "3">>
PAlpha == <<"1", "2", "3", "4", "5", "a", "b", "c", "d", "e">>

ValidPhones == {P1, P2}
InvalidPhones == {PShort, PAlpha}

-----------------------------------------------------------------------------
(* Calendar dates: datetime.date as <<year, month, day>>.                  *)

IsLeap(y) == (y % 4 = 0 /\ y % 100 # 0) \/ y % 400 = 0

DaysInMonth(y, m) ==
    CASE m \in {1, 3, 5, 7, 8, 10, 12} -> 31
      [] m \in {4, 6, 9, 11} -> 30
      [] OTHER -> IF IsLeap(y) THEN 29 ELSE 28

IsDate(y, m, d) ==
    /\ y \in 1..9999
    /\ m \in 1..12
    /\ d \in 1..DaysInMonth(y, m)

DaysBeforeYear(y) ==
    365 * (y - 1) + ((y - 1) \div 4) - ((y - 1) \div 100) + ((y - 1) \div 400)

RECURSIVE DaysBeforeMonth(_, _)
DaysBeforeMonth(y, m) ==
    IF m = 1 THEN 0 ELSE DaysBeforeMonth(y, m - 1) + DaysInMonth(y, m - 1)

\* date.toordinal(): what date subtraction and comparison go by
ToOrdinal(dt) == DaysBeforeYear(dt[1]) + DaysBeforeMonth(dt[1], dt[2]) + dt[3]

\* date.replace(year=y): [ok, date]; ValueError when the day is not in year y
ReplaceYear(dt, y) ==
    IF IsDate(y, dt[2], dt[3])
    THEN [ok |-> TRUE, date |-> <<y, dt[2], dt[3]>>]
    ELSE [ok |-> FALSE, date |-> dt]

NextDay(dt) ==
    IF dt[3] < DaysInMonth(dt[1], dt[2]) THEN <<dt[1], dt[2], dt[3] + 1>>
    ELSE IF dt[2] < 12 THEN <<dt[1], dt[2] + 1, 1>>
    ELSE <<dt[1] + 1, 1, 1>>

-----------------------------------------------------------------------------
(* Birthday.                                                               *)

DigitVal(c) ==
    CASE c = "0" -> 0 [] c = "1" -> 1 [] c = "2" -> 2 [] c = "3" -> 3
      [] c = "4" -> 4 [] c = "5" -> 5 [] c = "6" -> 6 [] c = "7" -> 7
      [] c = "8" -> 8 [] c = "9" -> 9 [] c = "U+0663" -> 3

\* int(s) of a string of digits
RECURSIVE IntOf(_)
IntOf(s) ==
    IF Len(s) = 0 THEN 0
    ELSE 10 * IntOf(SubSeq(s, 1, Len(s) - 1)) + DigitVal(s[Len(s)])

\* s.split("-")
RECURSIVE SplitDash(_)
SplitDash(s) ==
    IF \A i \in 1..Len(s) : s[i] # "-" THEN <<s>>
    ELSE LET i == CHOOSE k \in 1..Len(s) :
                      s[k] = "-" /\ \A j \in 1..(k - 1) : s[j] # "-"
         IN <<SubSeq(s, 1, i - 1)>> \o SplitDash(SubSeq(s, i + 1, Len(s)))

\* datetime.strptime(birthday, '%Y-%m-%d') returns, rather than raising
\* ValueError: four digits of year, one or two of month and of day, and the
\* three a date of the calendar.
StrptimeAccepts(birthday) ==
    LET parts == SplitDash(birthday) IN
    /\ Len(parts) = 3
    /\ Len(parts[1]) = 4 /\ isdigit(parts[1])
    /\ Len(parts[2]) \in {1, 2} /\ isdigit(parts[2])
    /\ Len(parts[3]) \in {1, 2} /\ isdigit(parts[3])
    /\ IsDate(IntOf(parts[1]), IntOf(parts[2]), IntOf(parts[3]))

\* date(*map(int, value.split("-")))
BirthdayDate(value) ==
    LET parts == SplitDash(value)
    IN <<IntOf(parts[1]), IntOf(parts[2]), IntOf(parts[3])>>

B_Leap == <<"2", "0", "0", "0", "-", "0", "2", "-", "2", "9">>
B_Jan1 == <<"2", "0", "0", "0", "-", "0", "1", "-", "0", "1">>
B_Dec31 == <<"1", "9", "9", "9", "-", "1", "2", "-", "3", "1">>
B_Jul4 == <<"2", "0", "0", "1", "-", "7", "-", "4">>
B_NotLeap == <<"2", "0", "0", "1", "-", "0", "2", "-", "2", "9">>
B_Month13 == <<"2", "0", "0", "0", "-", "1", "3", "-", "0", "1">>
B_DayFirst == <<"0", "1", "-", "0", "1", "-", "2", "0", "0", "0">>

ValidBirthdays == {B_Leap, B_Jan1, B_Dec31, B_Jul4}
InvalidBirthdays == {B_NotLeap, B_Month13, B_DayFirst}

-----------------------------------------------------------------------------
(* Record: [name, phones, birthday]; its methods return [rec, err, ...].   *)

\* the index of the first phone whose value is v, 0 when there is none
FirstIndex(phones, v) ==
    IF \E i \in 1..Len(phones) : phones[i] = v
    THEN CHOOSE i \in 1..Len(phones) :
             phones[i] = v /\ \A j \in 1..(i - 1) : phones[j] # v
    ELSE 0

\* list.remove of the element at index i
RemoveAt(seq, i) == SubSeq(seq, 1, i - 1) \o SubSeq(seq, i + 1, Len(seq))

\* Record.add_phone of both variants: Phone(phone) raises before the append
add_phone(rec, phone) ==
    IF is_valid_phone(phone)
    THEN [rec |-> [rec EXCEPT !.phones = Append(@, phone)], err |-> "none"]
    ELSE [rec |-> rec, err |-> "ValueError"]

\* Record.remove_phone of both variants
remove_phone(rec, phone) ==
    LET i == FirstIndex(rec.phones, phone) IN
    IF i = 0 THEN [rec |-> rec, err |-> "ValueError"]
    ELSE [rec |-> [rec EXCEPT !.phones = RemoveAt(@, i)], err |-> "none"]

\* Record.edit_phone of src/main.py: the assignment p.value = new_phone runs
\* Phone's setter, which raises before it stores.
edit_phone_main(rec, old_phone, new_phone) ==
    LET i == FirstIndex(rec.phones, old_phone) IN
    IF i = 0 THEN [rec |-> rec, err |-> "ValueError"]
    ELSE IF ~PhoneSetterAccepts(new_phone)
    THEN [rec |-> rec, err |-> "ValueError"]
    ELSE [rec |-> [rec EXCEPT !.phones[i] = new_phone], err |-> "none"]

\* Record.edit_phone of src/main1.py: the plain attribute is assigned first,
\* is_valid_phone is asked after the loop.
edit_phone_main1(rec, old_phone, new_phone) ==
    LET i == FirstIndex(rec.phones, old_phone) IN
    IF i = 0 THEN [rec |-> rec, err |-> "ValueError"]
    ELSE [rec |-> [rec EXCEPT !.phones[i] = new_phone],
          err |-> IF is_valid_phone(new_phone) THEN "none" ELSE "ValueError"]

edit_phone(v, rec, old_phone, new_phone) ==
    IF v = "main" THEN edit_phone_main(rec, old_phone, new_phone)
    ELSE edit_phone_main1(rec, old_phone, new_phone)

\* the phones of Record.__init__ of src/main.py: add_phone one by one, the
\* first invalid one raises
RECURSIVE InitPhones(_, _)
InitPhones(rec, phones) ==
    IF Len(phones) = 0 THEN [rec |-> rec, err |-> "none"]
    ELSE LET r == add_phone(rec, Head(phones)) IN
         IF r.err # "none" THEN r ELSE InitPhones(r.rec, Tail(phones))

\* Record(name, phones, birthday) of src/main.py; Record(name) of
\* src/main1.py, which takes neither phones nor a birthday.  An empty phones
\* list or birthday string is falsy: no phone is added, no Birthday is made.
RecordInit(v, name, phones, birthday) ==
    LET empty == [name |-> name, phones |-> <<>>, birthday |-> None] IN
    IF v = "main1" THEN [rec |-> empty, err |-> "none"]
    ELSE LET r == InitPhones(empty, phones) IN
         IF r.err # "none" THEN r
         ELSE IF birthday = None \/ Len(birthday) = 0 THEN r
         ELSE IF StrptimeAccepts(birthday)
         THEN [rec |-> [r.rec EXCEPT !.birthday = birthday], err |-> "none"]
         ELSE [rec |-> r.rec, err |-> "ValueError"]

\* Record.days_to_birthday: [ret, err]; ret is <<>> for None, <<days>> else
days_to_birthday(rec, now) ==
    IF rec.birthday = None THEN [ret |-> <<>>, err |-> "none"]
    ELSE LET birthday_date == BirthdayDate(rec.birthday)
             thisYear == ReplaceYear(birthday_date, now[1])
         IN IF ~thisYear.ok THEN [ret |-> <<>>, err |-> "ValueError"]
            ELSE IF ToOrdinal(now) > ToOrdinal(thisYear.date)
            THEN LET nextYear == ReplaceYear(thisYear.date, now[1] + 1) IN
                 IF ~nextYear.ok THEN [ret |-> <<>>, err |-> "ValueError"]
                 ELSE [ret |-> <<ToOrdinal(nextYear.date) - ToOrdinal(now)>>,
                       err |-> "none"]
            ELSE [ret |-> <<ToOrdinal(thisYear.date) - ToOrdinal(now)>>,
                  err |-> "none"]

-----------------------------------------------------------------------------
(* AddressBook: data is the dict, a sequence of [key, rec] in insertion    *)
(* order.                                                                  *)

Keys(data) == [i \in 1..Len(data) |-> data[i].key]

\* the index of key k in the dict, 0 when k is not a key
KeyIndex(data, k) ==
    IF \E i \in 1..Len(data) : data[i].key = k
    THEN CHOOSE i \in 1..Len(data) : data[i].key = k
    ELSE 0

\* self.data[key] = rec: an existing key keeps its place
SetItem(data, k, rec) ==
    LET i == KeyIndex(data, k) IN
    IF i = 0 THEN Append(data, [key |-> k, rec |-> rec])
    ELSE [data EXCEPT ![i].rec = rec]

\* add_record as it would be if an existing record's phones were kept
add_record_merging(data, rec) ==
    LET i == KeyIndex(data, rec.name) IN
    IF i = 0 THEN SetItem(data, rec.name, rec)
    ELSE SetItem(data, rec.name,
                 [rec EXCEPT !.phones = data[i].rec.phones \o @])

\* AddressBook.add_record
add_record(data, rec) == SetItem(data, rec.name, rec)

\* AddressBook.delete
delete(data, name) ==
    LET i == KeyIndex(data, name) IN
    IF i = 0 THEN data ELSE RemoveAt(data, i)

\* AddressBook.find of src/main1.py: <<rec>>, or <<>> for None
find_exact(data, name) ==
    LET i == KeyIndex(data, name) IN
    IF i = 0 THEN <<>> ELSE <<data[i].rec>>

\* the inner loop of AddressBook.find of src/main.py over one record's phones
RECURSIVE PhoneMatches(_, _, _)
PhoneMatches(rec, phones, query) ==
    IF Len(phones) = 0 THEN <<>>
    ELSE (IF Contains(Head(phones), lower(query)) THEN <<rec>> ELSE <<>>)
         \o PhoneMatches(rec, Tail(phones), query)

\* find as it would be if a record were returned once however often it matches
RECURSIVE find_once(_, _)
find_once(data, query) ==
    IF Len(data) = 0 THEN <<>>
    ELSE LET note == Head(data).rec IN
         (IF \/ Contains(lower(note.name), lower(query))
             \/ \E j \in 1..Len(note.phones) :
                    Contains(note.phones[j], lower(query))
          THEN <<note>> ELSE <<>>)
         \o find_once(Tail(data), query)

\* AddressBook.find of src/main.py
RECURSIVE find(_, _)
find(data, query) ==
    IF Len(data) = 0 THEN <<>>
    ELSE LET note == Head(data).rec IN
         (IF Contains(lower(note.name), lower(query)) THEN <<note>> ELSE <<>>)
         \o PhoneMatches(note, note.phones, query)
         \o find(Tail(data), query)

-----------------------------------------------------------------------------
(* State.                                                                  *)

AddressBook(data) == [kind |-> "AddressBook", data |-> data]

\* what a name bound to None holds
NoBook == [kind |-> "None", data |-> <<>>]

\* the process ended with an uncaught exception
NoProcess == [kind |-> "Crashed", data |-> <<>>]

MissingFile == [exists |-> FALSE, bytes |-> <<>>]

NoGen == [state |-> "none", batch_size |-> 0, record_keys |-> <<>>,
          current_batch |-> 0, yielded |-> <<>>]

Call(op, args, err, ret) == [op |-> op, args |-> args, err |-> err, ret |-> ret]

NoCall == Call("none", <<>>, "none", <<>>)

IsBook == address_book.kind = "AddressBook"

HasKey(name) == KeyIndex(address_book.data, name) # 0

RecOf(name) == address_book.data[KeyIndex(address_book.data, name)].rec

N1 == <<"A", "b">>
N2 == <<"b", "1", "2">>
N3 == <<"c">>

-----------------------------------------------------------------------------
(* The calls on records and on the book.                                   *)

\* Record(name, phones, birthday) and address_book.add_record(record)
AddRecord(name, phones, birthday) ==
    /\ IsBook
    /\ variant = "main1" => (phones = <<>> /\ birthday = None)
    /\ LET r == RecordInit(variant, name, phones, birthday) IN
       IF r.err # "none"
       THEN /\ last' = Call("Record", <<name, phones, birthday>>, r.err, <<>>)
            /\ UNCHANGED <<address_book, mutated>>
       ELSE /\ address_book' = AddressBook(add_record(address_book.data, r.rec))
            /\ mutated' = TRUE
            /\ last' = Call("add_record", <<name, phones, birthday>>, "none", <<>>)
    /\ UNCHANGED <<variant, file, gen, today>>

\* the update a method of the record under `name` makes, and what it raised
RecordCall(op, name, args, r) ==
    /\ address_book' = AddressBook(SetItem(address_book.data, name, r.rec))
    /\ mutated' = (mutated \/ r.rec # RecOf(name))
    /\ last' = Call(op, <<name>> \o args, r.err, <<>>)
    /\ UNCHANGED <<variant, file, gen, today>>

\* address_book[name].add_phone(phone)
AddPhone(name, phone) ==
    /\ IsBook /\ HasKey(name)
    /\ RecordCall("add_phone", name, <<phone>>, add_phone(RecOf(name), phone))

\* address_book[name].remove_phone(phone)
RemovePhone(name, phone) ==
    /\ IsBook /\ HasKey(name)
    /\ RecordCall("remove_phone", name, <<phone>>,
                  remove_phone(RecOf(name), phone))

\* address_book[name].edit_phone(old_phone, new_phone)
EditPhone(name, old_phone, new_phone) ==
    /\ IsBook /\ HasKey(name)
    /\ RecordCall("edit_phone", name, <<old_phone, new_phone>>,
                  edit_phone(variant, RecOf(name), old_phone, new_phone))

\* address_book.delete(name)
Delete(name) ==
    /\ IsBook
    /\ address_book' = AddressBook(delete(address_book.data, name))
    /\ mutated' = (mutated \/ HasKey(name))
    /\ last' = Call("delete", <<name>>, "none", <<>>)
    /\ UNCHANGED <<variant, file, gen, today>>

\* address_book.find(query) of src/main.py
Find(query) ==
    /\ IsBook /\ variant = "main"
    /\ last' = Call("find", <<query>>, "none", find(address_book.data, query))
    /\ UNCHANGED <<variant, address_book, file, gen, mutated, today>>

\* address_book.find(name) of src/main1.py
FindExact(name) ==
    /\ IsBook /\ variant = "main1"
    /\ last' = Call("find_exact", <<name>>, "none",
                    find_exact(address_book.data, name))
    /\ UNCHANGED <<variant, address_book, file, gen, mutated, today>>

-----------------------------------------------------------------------------
(* One record under every sequence of phone calls, in both variants.       *)

InitWith(variants, files) ==
    /\ variant \in variants
    /\ address_book = AddressBook(<<>>)
    /\ file \in files
    /\ gen = NoGen
    /\ mutated = FALSE
    /\ today = <<FirstYear, 1, 1>>
    /\ last = NoCall

PhoneInputs == ValidPhones \cup {PUni} \cup InvalidPhones

InitRecord == InitWith({"main", "main1"}, {MissingFile})

NextRecord ==
    \/ AddRecord(N1, <<>>, None)
    \/ \E phone \in PhoneInputs :
           /\ HasKey(N1) /\ Len(RecOf(N1).phones) < MaxPhones
           /\ AddPhone(N1, phone)
    \/ \E phone \in PhoneInputs : RemovePhone(N1, phone)
    \/ \E old_phone, new_phone \in PhoneInputs :
           EditPhone(N1, old_phone, new_phone)

SpecRecord == InitRecord /\ [][NextRecord]_vars

PhonesOf(name) == RecOf(name).phones

\* what the claims call a valid phone: ten characters, every one a digit
IsTenDigits(s) == Len(s) = 10 /\ \A i \in 1..Len(s) : s[i] \in UnicodeDigits

\* C2: in both variants, after any sequence of Record construction,
\* add_phone, remove_phone and edit_phone calls, failed ones included, every
\* phone held by a record is a string of exactly ten digits.
C2_EveryHeldPhoneValid ==
    \A i \in 1..Len(address_book.data) :
        \A j \in 1..Len(address_book.data[i].rec.phones) :
            IsTenDigits(address_book.data[i].rec.phones[j])

\* C3: in both variants, edit_phone(old_phone, new_phone) with old_phone
\* held by the record: an invalid new_phone raises a validation error and
\* leaves the phone list as it was; a valid one replaces the first phone equal
\* to old_phone, in place, and changes no other phone.
C3_EditPhoneAtomic ==
    [][\A name \in {N1, N2, N3} :
        (/\ last'.op = "edit_phone"
         /\ last'.args[1] = name
         /\ FirstIndex(PhonesOf(name), last'.args[2]) # 0)
        => LET before == PhonesOf(name)
               i == FirstIndex(before, last'.args[2])
           IN IF IsTenDigits(last'.args[3])
              THEN /\ last'.err = "none"
                   /\ PhonesOf(name)' = [before EXCEPT ![i] = last'.args[3]]
              ELSE /\ last'.err = "ValueError"
                   /\ PhonesOf(name)' = before]_vars

-----------------------------------------------------------------------------
(* A book of two names under every sequence of calls, in both variants.    *)

BookNames == {N1, N2}

BookPhoneInputs == {P1, P2}

\* the <<phones, birthday>> handed to Record(name, phones, birthday)
RecordInputs == {<<<<>>, None>>, <<<<P1>>, B_Jan1>>, <<<<P2, P1>>, None>>,
                 <<<<P1, PShort>>, None>>, <<<<>>, B_Month13>>}

Queries == {<<>>, <<"A", "B">>, <<"1", "2">>, <<"0">>, <<"x">>}

InitBook == InitWith({"main", "main1"}, {MissingFile})

NextBook ==
    \/ \E name \in BookNames, given \in RecordInputs :
           AddRecord(name, given[1], given[2])
    \/ \E name \in BookNames, phone \in BookPhoneInputs :
           /\ HasKey(name) /\ Len(PhonesOf(name)) < MaxBookPhones
           /\ AddPhone(name, phone)
    \/ \E name \in BookNames, phone \in BookPhoneInputs :
           RemovePhone(name, phone)
    \/ \E name \in BookNames, old_phone, new_phone \in BookPhoneInputs :
           EditPhone(name, old_phone, new_phone)
    \/ \E name \in BookNames : Delete(name)
    \/ \E query \in Queries : Find(query)
    \/ \E name \in BookNames : FindExact(name)

SpecBook == InitBook /\ [][NextBook]_vars

\* the number of entries of seq that are x
RECURSIVE Count(_, _)
Count(seq, x) ==
    IF Len(seq) = 0 THEN 0
    ELSE (IF Head(seq) = x THEN 1 ELSE 0) + Count(Tail(seq), x)

\* q is a substring of s, letter case set aside
IsSubstringNoCase(q, s) ==
    \E i \in 0..(Len(s) - Len(q)) :
        \A k \in 1..Len(q) : LowerChar(q[k]) = LowerChar(s[i + k])

\* q is a substring of s
IsSubstring(q, s) ==
    \E i \in 0..(Len(s) - Len(q)) : \A k \in 1..Len(q) : q[k] = s[i + k]

\* C4: the book holds at most one record per name; exact-name lookup of n
\* gives the record most recently added under n, as it was added (nothing of a
\* record it replaced merged in), until delete(n), and nothing after it;
\* delete of a name the book does not hold changes no record.
C4_OneRecordPerName ==
    /\ [](\A i, j \in 1..Len(address_book.data) :
              /\ address_book.data[i].key = address_book.data[i].rec.name
              /\ address_book.data[i].key = address_book.data[j].key => i = j)
    /\ [][\A name \in BookNames :
            LET was == find_exact(address_book.data, name)
                is == find_exact(address_book.data, name)'
            IN CASE last'.op = "add_record" /\ last'.args[1] = name ->
                        is = <<RecordInit(variant, name, last'.args[2],
                                          last'.args[3]).rec>>
                 [] last'.op = "delete" /\ last'.args[1] = name ->
                        /\ is = <<>>
                        /\ was = <<>> => address_book' = address_book
                 [] last'.op \in {"add_record", "delete"}
                        /\ last'.args[1] # name ->
                        is = was
                 [] OTHER -> (is = <<>>) <=> (was = <<>>)]_vars

\* a record was added under a name the book already held with other phones
C4_Witness ==
    /\ last.op = "add_record"
    /\ Len(address_book.data) = 2
    /\ address_book.data[1].key = last.args[1]
    /\ address_book.data[1].rec.phones = <<>>
    /\ address_book.data[2].rec.phones # <<>>

\* C9: find(query) of src/main.py returns, in book order, one entry for a
\* record whose name contains the query (case set aside) and one more for
\* each of its phones that contains the query; a record that matches nowhere
\* is not returned.
C9_FindCountsMatches ==
    last.op = "find" =>
        LET data == address_book.data
            query == last.args[1]
            Pos(r) == KeyIndex(data, r.name)
        IN /\ \A i \in 1..Len(data) :
                  Count(last.ret, data[i].rec) =
                      (IF IsSubstringNoCase(query, data[i].rec.name)
                       THEN 1 ELSE 0)
                      + Cardinality({j \in 1..Len(data[i].rec.phones) :
                                       IsSubstring(query, data[i].rec.phones[j])})
           /\ \A a \in 1..Len(last.ret) :
                  /\ Pos(last.ret[a]) # 0
                  /\ data[Pos(last.ret[a])].rec = last.ret[a]
           /\ \A a, b \in 1..Len(last.ret) :
                  a < b => Pos(last.ret[a]) <= Pos(last.ret[b])

\* a query that matches one record three times and the other not at all
C9_Witness ==
    /\ last.op = "find"
    /\ Len(address_book.data) = 2
    /\ Count(last.ret, address_book.data[2].rec) = 3
    /\ Count(last.ret, address_book.data[1].rec) = 0

-----------------------------------------------------------------------------
(* pickle: the file's bytes are a sequence of opcodes, [op, arg].  An      *)
(* object is its class (GLOBAL), its state and BUILD; a list is MARK, its  *)
(* items and LIST; the dict is MARK, key and value pairs, and SETITEMS.    *)

Tok(op, arg) == [op |-> op, arg |-> arg]

Opcodes == {"GLOBAL", "STR", "NONE", "MARK", "LIST", "SETITEMS", "BUILD", "STOP"}

\* the classes pickle finds in the module when it loads
Classes == {<<"AddressBook">>, <<"Record">>, <<"Name">>, <<"Phone">>,
            <<"Birthday">>}

\* a Name, Phone or Birthday object: its class and its one value
DumpField(cls, value) ==
    <<Tok("GLOBAL", <<cls>>), Tok("STR", value), Tok("BUILD", <<>>)>>

RECURSIVE DumpPhones(_)
DumpPhones(phones) ==
    IF Len(phones) = 0 THEN <<>>
    ELSE DumpField("Phone", Head(phones)) \o DumpPhones(Tail(phones))

DumpRecord(rec) ==
    <<Tok("GLOBAL", <<"Record">>)>>
    \o DumpField("Name", rec.name)
    \o <<Tok("MARK", <<>>)>> \o DumpPhones(rec.phones) \o <<Tok("LIST", <<>>)>>
    \o (IF rec.birthday = None THEN <<Tok("NONE", <<>>)>>
        ELSE DumpField("Birthday", rec.birthday))
    \o <<Tok("BUILD", <<>>)>>

RECURSIVE DumpItems(_)
DumpItems(data) ==
    IF Len(data) = 0 THEN <<>>
    ELSE <<Tok("STR", Head(data).key)>> \o DumpRecord(Head(data).rec)
         \o DumpItems(Tail(data))

\* pickle.dump(address_book, file)
pickle_dump(book) ==
    <<Tok("GLOBAL", <<"AddressBook">>), Tok("MARK", <<>>)>>
    \o DumpItems(book.data)
    \o <<Tok("SETITEMS", <<>>), Tok("BUILD", <<>>), Tok("STOP", <<>>)>>

\* the readers give [val, pos]: what was read and where the next opcode is
LoadField(bytes, pos) == [val |-> bytes[pos + 1].arg, pos |-> pos + 3]

RECURSIVE LoadPhones(_, _)
LoadPhones(bytes, pos) ==
    IF bytes[pos].op = "LIST" THEN [val |-> <<>>, pos |-> pos + 1]
    ELSE LET phone == LoadField(bytes, pos)
             rest == LoadPhones(bytes, phone.pos)
         IN [val |-> <<phone.val>> \o rest.val, pos |-> rest.pos]

LoadRecord(bytes, pos) ==
    LET name == LoadField(bytes, pos + 1)
        phones == LoadPhones(bytes, name.pos + 1)
        birthday == IF bytes[phones.pos].op = "NONE"
                    THEN [val |-> None, pos |-> phones.pos + 1]
                    ELSE LoadField(bytes, phones.pos)
    IN [val |-> [name |-> name.val, phones |-> phones.val,
                 birthday |-> birthday.val],
        pos |-> birthday.pos + 1]

RECURSIVE LoadItems(_, _)
LoadItems(bytes, pos) ==
    IF bytes[pos].op = "SETITEMS" THEN [val |-> <<>>, pos |-> pos + 1]
    ELSE LET rec == LoadRecord(bytes, pos + 1)
             rest == LoadItems(bytes, rec.pos)
         IN [val |-> <<[key |-> bytes[pos].arg, rec |-> rec.val]>> \o rest.val,
             pos |-> rest.pos]

\* pickle.load(file): [ret, err].  It reads the first object of the file.  A
\* byte that is no opcode raises UnpicklingError, an empty file EOFError, a
\* class the module does not define AttributeError.
pickle_load(bytes) ==
    IF Len(bytes) = 0 THEN [ret |-> <<>>, err |-> "EOFError"]
    ELSE IF bytes[1].op \notin Opcodes
    THEN [ret |-> <<>>, err |-> "UnpicklingError"]
    ELSE IF bytes[1].op = "GLOBAL" /\ bytes[1].arg \notin Classes
    THEN [ret |-> <<>>, err |-> "AttributeError"]
    ELSE [ret |-> <<AddressBook(LoadItems(bytes, 3).val)>>, err |-> "none"]

-----------------------------------------------------------------------------
(* AddressBookFileManager and the start of main.                           *)

\* save as it would be if the file were opened to append ('ab')
save_appending(f, book) ==
    [exists |-> TRUE, bytes |-> f.bytes \o pickle_dump(book)]

\* open(filename, 'wb') truncates; pickle.dump writes the one object
save(f, book) == [exists |-> TRUE, bytes |-> pickle_dump(book)]

\* AddressBookFileManager.load: [ret, err]; ret is <<>> for None.  open()
\* raises FileNotFoundError, which load does not catch; AttributeError is
\* caught and None returned; every other error of pickle.load goes on up.
load(f) ==
    IF ~f.exists THEN [ret |-> <<>>, err |-> "FileNotFoundError"]
    ELSE LET r == pickle_load(f.bytes) IN
         IF r.err = "AttributeError" THEN [ret |-> <<>>, err |-> "none"]
         ELSE r

\* file_manager.save(address_book)
Save ==
    /\ IsBook /\ variant = "main"
    /\ file' = save(file, address_book)
    /\ last' = Call("save", <<>>, "none", <<>>)
    /\ UNCHANGED <<variant, address_book, gen, mutated, today>>

\* file_manager.load()
Load ==
    /\ variant = "main"
    /\ last' = Call("load", <<>>, load(file).err, load(file).ret)
    /\ UNCHANGED <<variant, address_book, file, gen, mutated, today>>

\* main up to its loop: address_book is what load returned, a new
\* AddressBook on FileNotFoundError; any other error ends the process
MainStart ==
    /\ variant = "main"
    /\ LET r == load(file) IN
       /\ address_book' =
              IF r.err = "FileNotFoundError" THEN AddressBook(<<>>)
              ELSE IF r.err # "none" THEN NoProcess
              ELSE IF r.ret = <<>> THEN NoBook
              ELSE r.ret[1]
       /\ last' = Call("main", <<>>,
                       IF r.err = "FileNotFoundError" THEN "none" ELSE r.err,
                       <<>>)
    /\ mutated' = TRUE
    /\ UNCHANGED <<variant, file, gen, today>>

\* choices 1 to 3 of main's loop when address_book is None: add_record, find
\* and values are attributes None does not have
MainLoopOnNone ==
    /\ address_book = NoBook
    /\ address_book' = NoProcess
    /\ last' = Call("main", <<>>, "AttributeError", <<>>)
    /\ UNCHANGED <<variant, file, gen, mutated, today>>

\* a file of bytes that are no pickle
GarbageFile == [exists |-> TRUE, bytes |-> <<Tok("GARBAGE", <<>>)>>]

\* a pickle of an object whose class the module does not define
StaleClassFile ==
    [exists |-> TRUE,
     bytes |-> <<Tok("GLOBAL", <<"ContactBook">>), Tok("MARK", <<>>),
                 Tok("SETITEMS", <<>>), Tok("BUILD", <<>>), Tok("STOP", <<>>)>>]

InitPersist == InitWith({"main"}, {StaleClassFile, GarbageFile, MissingFile})

NextPersist ==
    \/ \E phones \in {<<>>, <<P2, P1>>} : AddRecord(N1, phones, B_Jan1)
    \/ \E phones \in {<<>>, <<P1>>} : AddRecord(N2, phones, None)
    \/ \E name \in BookNames, phone \in {P1, P2} :
           /\ HasKey(name) /\ Len(PhonesOf(name)) < MaxBookPhones
           /\ name = N2 => phone = P1
           /\ AddPhone(name, phone)
    \/ \E phone \in {P1, P2} : RemovePhone(N1, phone)
    \/ EditPhone(N1, P1, P2)
    \/ \E name \in BookNames : Delete(name)
    \/ Save
    \/ Load
    \/ MainStart
    \/ MainLoopOnNone

SpecPersist == InitPersist /\ [][NextPersist]_vars

\* C1: save(book) followed by load() returns a book equal to the one saved:
\* the same names in the same order, for every name the same phones in the
\* same order and the same birthday or absence of one; whatever the file held
\* before the save is gone, and only a save changes the file.
C1_SaveLoadRoundTrip ==
    [][IF last'.op = "save"
       THEN load(file') = [ret |-> <<address_book>>, err |-> "none"]
       ELSE file' = file]_vars

\* a book of two records, one with a birthday and two phones, one with
\* neither, was saved and loaded back
C1_Witness ==
    /\ last.op = "load" /\ last.err = "none"
    /\ last.ret = <<address_book>>
    /\ Len(address_book.data) = 2
    /\ \E i, j \in 1..2 :
           /\ address_book.data[i].rec.birthday # None
           /\ Len(address_book.data[i].rec.phones) = 2
           /\ address_book.data[j].rec.birthday = None

\* the file holds a pickled AddressBook
IsSavedBook(f) ==
    /\ f.exists
    /\ Len(f.bytes) > 0
    /\ f.bytes[1] = Tok("GLOBAL", <<"AddressBook">>)

\* C7: load() of a missing file returns an empty AddressBook and raises
\* nothing; load() of a file that is no saved AddressBook raises an error,
\* never returning an empty or absent book; main never goes on with a missing
\* address book.
C7_LoadOutcome ==
    /\ (last.op = "load" /\ file.exists /\ ~IsSavedBook(file)) =>
           /\ last.err # "none"
           /\ last.ret = <<>>
    /\ address_book # NoBook
    /\ (last.op = "load" /\ ~file.exists) =>
           (last.err = "none" /\ last.ret = <<AddressBook(<<>>)>>)

-----------------------------------------------------------------------------
(* AddressBook.iterator: a generator.  Its body runs from the first next() *)
(* on, up to each yield.                                                   *)

Min(a, b) == IF a < b THEN a ELSE b

\* the range as it would be if its end were taken for inclusive
BatchRangeShort(current_batch, batch_size, n) ==
    current_batch .. (Min(current_batch + batch_size, n) - 2)

\* range(current_batch, min(current_batch + batch_size, len(record_keys)))
BatchRange(current_batch, batch_size, n) ==
    current_batch .. (Min(current_batch + batch_size, n) - 1)

\* record_keys[i] of Python: from 0, a negative i counts from the end
PyItem(seq, i) == IF i >= 0 THEN seq[i + 1] ELSE seq[Len(seq) + i + 1]

\* [self.data[record_keys[i]] for i in range(lo, hi + 1)]: [ret, err], the
\* first key that is no longer in the dict raises KeyError
RECURSIVE BatchOf(_, _, _, _)
BatchOf(data, record_keys, lo, hi) ==
    IF lo > hi THEN [ret |-> <<>>, err |-> "none"]
    ELSE LET k == KeyIndex(data, PyItem(record_keys, lo)) IN
         IF k = 0 THEN [ret |-> <<>>, err |-> "KeyError"]
         ELSE LET rest == BatchOf(data, record_keys, lo + 1, hi) IN
              IF rest.err # "none" THEN rest
              ELSE [ret |-> <<data[k].rec>> \o rest.ret, err |-> "none"]

\* address_book.iterator(batch_size): makes the generator, runs none of it
Iterator(batch_size) ==
    /\ IsBook /\ variant = "main"
    /\ gen' = [state |-> "created", batch_size |-> batch_size,
               record_keys |-> <<>>, current_batch |-> 0, yielded |-> <<>>]
    /\ mutated' = FALSE
    /\ last' = Call("iterator", <<batch_size>>, "none", <<>>)
    /\ UNCHANGED <<variant, address_book, file, today>>

\* next(generator): from the start, or from the yield it is suspended at, to
\* the next yield, to the end of the loop (StopIteration), or to an error
NextBatch ==
    /\ IsBook /\ gen.state # "none"
    /\ IF gen.state \in {"done", "failed"}
       THEN /\ last' = Call("next", <<>>, "StopIteration", <<>>)
            /\ UNCHANGED gen
       ELSE LET record_keys == IF gen.state = "created"
                               THEN Keys(address_book.data)
                               ELSE gen.record_keys
                current_batch == IF gen.state = "created" THEN 0
                                 ELSE gen.current_batch + gen.batch_size
                running == [gen EXCEPT !.record_keys = record_keys,
                                       !.current_batch = current_batch]
                range == BatchRange(current_batch, gen.batch_size,
                                    Len(record_keys))
                batch == IF range = {} THEN [ret |-> <<>>, err |-> "none"]
                         ELSE BatchOf(address_book.data, record_keys,
                                      current_batch,
                                      current_batch + Cardinality(range) - 1)
            IN IF ~(current_batch < Len(record_keys))
               THEN /\ gen' = [running EXCEPT !.state = "done"]
                    /\ last' = Call("next", <<>>, "StopIteration", <<>>)
               ELSE IF batch.err # "none"
               THEN /\ gen' = [running EXCEPT !.state = "failed"]
                    /\ last' = Call("next", <<>>, batch.err, <<>>)
               ELSE /\ gen' = [running EXCEPT !.state = "suspended",
                                              !.yielded = Append(@, batch.ret)]
                    /\ last' = Call("next", <<>>, "none", batch.ret)
    /\ UNCHANGED <<variant, address_book, file, mutated, today>>

PageNames == {N1, N2, N3}

InitPage == InitWith({"main"}, {MissingFile})

NextPage ==
    \/ \E name \in PageNames : AddRecord(name, <<>>, None)
    \/ AddRecord(N1, <<P1>>, None)
    \/ \E name \in PageNames : Delete(name)
    \/ \E batch_size \in -1..MaxBatch : Iterator(batch_size)
    \/ Len(gen.yielded) < MaxFetch /\ NextBatch

SpecPage == InitPage /\ [][NextPage]_vars

RECURSIVE Flatten(_)
Flatten(seqs) == IF Len(seqs) = 0 THEN <<>> ELSE Head(seqs) \o Flatten(Tail(seqs))

\* C5: a pagination with batch_size b >= 1 run to its end over a book of n
\* records that no call changed meanwhile yields ceil(n/b) batches, all of b
\* records but the last, which has 1 to b, and together the records of the
\* book, each once, in key insertion order; so does every later pagination, over
\* the book as it is then.
C5_PaginationCoversBook ==
    (gen.state = "done" /\ gen.batch_size >= 1 /\ ~mutated) =>
        LET n == Len(address_book.data)
            b == gen.batch_size
            batches == gen.yielded
        IN /\ Len(batches) = (n + b - 1) \div b
           /\ \A k \in 1..(Len(batches) - 1) : Len(batches[k]) = b
           /\ Len(batches) > 0 => Len(batches[Len(batches)]) \in 1..b
           /\ Flatten(batches) = [i \in 1..n |-> address_book.data[i].rec]

\* three records paged by two: a full batch and a short one
C5_Witness ==
    /\ gen.state = "done" /\ ~mutated
    /\ gen.batch_size = 2
    /\ Len(address_book.data) = 3
    /\ Len(gen.yielded) = 2
    /\ Len(gen.yielded[2]) = 1

\* C6: iterator(batch_size) with batch_size 0 or negative on a book that is
\* not empty fails with a precondition error before it produces any batch.
C6_BadBatchSizeFailsFast ==
    (gen.batch_size < 1 /\ gen.record_keys # <<>>) =>
        /\ gen.yielded = <<>>
        /\ gen.state = "failed"

\* C10: with batch_size >= 1, a fetch made after a record not yet yielded was
\* deleted raises no error, and the batch it gives holds no deleted record.
C10_FetchAfterDelete ==
    (last.op = "next" /\ gen.batch_size >= 1) =>
        /\ last.err \in {"none", "StopIteration"}
        /\ \A i \in 1..Len(last.ret) : HasKey(last.ret[i].name)

-----------------------------------------------------------------------------
(* Record.days_to_birthday as the days go by.                              *)

\* record.days_to_birthday(), with date.today() giving `today`
DaysToBirthday(name) ==
    /\ IsBook /\ HasKey(name) /\ variant = "main"
    /\ LET r == days_to_birthday(RecOf(name), today) IN
       last' = Call("days_to_birthday", <<name>>, r.err, r.ret)
    /\ UNCHANGED <<variant, address_book, file, gen, mutated, today>>

\* midnight
Tick ==
    /\ today' = NextDay(today)
    /\ last' = NoCall
    /\ UNCHANGED <<variant, address_book, file, gen, mutated>>

InitDays == InitWith({"main"}, {MissingFile})

NextDays ==
    \/ \E birthday \in ValidBirthdays \cup InvalidBirthdays \cup {None} :
           AddRecord(N1, <<>>, birthday)
    \/ DaysToBirthday(N1)
    \/ NextDay(today)[1] <= LastYear /\ Tick

SpecDays == InitDays /\ [][NextDays]_vars

\* the days from `now` to the next date on or after it with month m and day d
DaysUntilNext(now, m, d) ==
    LET later == {ToOrdinal(<<y, m, d>>) - ToOrdinal(now) :
                     y \in {z \in now[1]..(now[1] + 8) : IsDate(z, m, d)}}
        ahead == {n \in later : n >= 0}
    IN CHOOSE n \in ahead : \A k \in ahead : n <= k

\* C8: for every valid birthday, 29 February included, and every date,
\* days_to_birthday() returns the whole days d, 0 <= d <= 366, to the next
\* date on or after today with the birthday's month and day.
C8_DaysToNextBirthday ==
    (last.op = "days_to_birthday" /\ RecOf(N1).birthday # None) =>
        LET born == BirthdayDate(RecOf(N1).birthday) IN
        /\ last.err = "none"
        /\ Len(last.ret) = 1
        /\ last.ret[1] \in 0..366
        /\ last.ret[1] = DaysUntilNext(today, born[2], born[3])

====
